---- MODULE Spec2Model ----
(***************************************************************************)
(* PHARS dashboard (src/app.py): one Streamlit script that is re-run from  *)
(* top to bottom on every user interaction.  A script run ("pass") loads   *)
(* the metadata, reads the sidebar filters, fetches summary and cases      *)
(* through memoized helpers, and renders KPIs and the Overview, Report and *)
(* Governance tabs.  st.stop() ends a run; an uncaught exception ends it   *)
(* with the framework's exception box.                                     *)
(***************************************************************************)
EXTENDS Integers, Sequences, FiniteSets, TLC

\* ------------------------------------------------------------------ bounds
\* Script runs in one session.
MaxPasses == 4
\* Rows in a /cases payload.
MaxRows == 2
\* Entries of the metadata's levels list.
MaxLevels == 2
\* Entries of one level's location list.
MaxLocs == 2

\* --------------------------------------------------------- program constants
\* st.slider("API Timeout (sec)", 3, 30, 10): the default value.
DefaultTimeout == 10
\* fetch_cases(..., limit=8000) at the call site.
CasesLimit == 8000
\* if gap > 30
GapLimit == 30

\* The API base URL of the text input (its default, after rstrip("/")).
API_BASE == "https://web-production-1a8ae.up.railway.app/api"

\* Slider positions the user moves between (the slider allows 3..30).
Timeouts == {DefaultTimeout, 30}

\* ------------------------------------------------------------- cell values
\* A cell of a payload row or of the DataFrame is a record [k, v]:
\*   "iso"  a "YYYY-MM-DD" string naming day v     "str"  any other string
\*   "int"  the number v                           "null" JSON null
\*   "ts"   a parsed timestamp of day v            "NaT"  missing timestamp
\*   "nan"  missing number
Cell(k, v) == [k |-> k, v |-> v]
NaT == Cell("NaT", 0)
NaN == Cell("nan", 0)
Garbage == Cell("str", 0)

\* pd.to_datetime(x, errors="coerce") on one cell
to_datetime(c) ==
    IF c.k = "iso" \/ c.k = "ts" THEN Cell("ts", c.v) ELSE NaT

\* pd.to_numeric(x, errors="coerce") on one cell
to_numeric(c) ==
    IF c.k = "int" THEN c ELSE NaN

\* date.strftime("%Y-%m-%d")
strftime(d) == Cell("iso", d)

\* The columns a payload row may carry, in the order the API lists them.
ColumnOrder == <<"date", "location", "new_cases", "new_deaths", "total_cases", "total_deaths">>

AllColumns == {ColumnOrder[i] : i \in 1..Len(ColumnOrder)}

\* ------------------------------------------------------------ sequences
Range(s) == {s[i] : i \in 1..Len(s)}

RECURSIVE SeqsUpTo(_, _)
SeqsUpTo(S, n) ==
    IF n = 0 THEN {<<>>}
    ELSE LET shorter == SeqsUpTo(S, n - 1)
         IN  shorter \cup {Append(s, x) : s \in {t \in shorter : Len(t) = n - 1}, x \in S}

\* list.index(x): first position of x
IndexOf(s, x) == CHOOSE i \in 1..Len(s) : s[i] = x /\ \A j \in 1..(i - 1) : s[j] # x

\* number of positions of s that satisfy the set membership
RECURSIVE CountIn(_, _)
CountIn(s, S) ==
    IF s = <<>> THEN 0
    ELSE (IF Head(s) \in S THEN 1 ELSE 0) + CountIn(Tail(s), S)

\* ------------------------------------------------------------ DataFrame
\* A DataFrame is [cols: ordered column names, rows: sequence of functions
\* from the column names to cells].
EmptyFrame == [cols |-> <<>>, rows |-> <<>>]

HasColumn(d, c) == c \in Range(d.cols)

\* pd.DataFrame(list of dicts): the columns are the keys that occur, a key a
\* row lacks is filled with NaN.
DataFrame(data) ==
    LET keys == UNION {DOMAIN data[i] : i \in 1..Len(data)}
        Present(c) == c \in keys
    IN  [cols |-> SelectSeq(ColumnOrder, Present),
         rows |-> [i \in 1..Len(data) |->
                     [c \in keys |-> IF c \in DOMAIN data[i] THEN data[i][c] ELSE NaN]]]

\* Variant: a test that no frame satisfies (df is None).
DfNone(d) == FALSE

\* df.empty: any axis of length 0
DfEmpty(d) == Len(d.rows) = 0 \/ Len(d.cols) = 0

\* df[c] = f(df[c])
MapColumn(d, c, f(_)) ==
    [d EXCEPT !.rows = [i \in 1..Len(d.rows) |-> [d.rows[i] EXCEPT ![c] = f(@)]]]

\* payload.get("data", [])
PayloadData(payload) == IF "data" \in DOMAIN payload THEN payload.data ELSE <<>>

\* fetch_cases, from the payload to the returned frame
normalize(payload) ==
    LET d == DataFrame(PayloadData(payload))
    IN  IF ~DfEmpty(d) /\ HasColumn(d, "date") THEN MapColumn(d, "date", to_datetime) ELSE d

\* Ascending order of the date column, NaT last.
DateBefore(a, b) == a.k = "ts" /\ (b.k # "ts" \/ a.v < b.v)

RECURSIVE InsertByDate(_, _)
InsertByDate(r, s) ==
    IF s = <<>> THEN <<r>>
    ELSE IF DateBefore(r.date, Head(s).date) THEN <<r>> \o s
    ELSE <<Head(s)>> \o InsertByDate(r, Tail(s))

RECURSIVE SortRows(_)
SortRows(s) ==
    IF s = <<>> THEN <<>> ELSE InsertByDate(s[Len(s)], SortRows(SubSeq(s, 1, Len(s) - 1)))

\* df.sort_values("date"): a new frame, the receiver is left as it is.
\* Rows with equal dates keep their stored order here (pandas does not
\* promise any order among them).
\* Defined only when the frame has a date column (KeyError otherwise).
sort_values(d) == [d EXCEPT !.rows = SortRows(d.rows)]

\* df["date"].max(): NaT when no row has a timestamp
DateMax(d) ==
    LET days == {d.rows[i].date.v : i \in {j \in 1..Len(d.rows) : d.rows[j].date.k = "ts"}}
    IN  IF days = {} THEN NaT ELSE Cell("ts", CHOOSE m \in days : \A x \in days : x <= m)

\* int(df["date"].isna().sum())
NullDates(d) == Cardinality({i \in 1..Len(d.rows) : d.rows[i].date.k # "ts"})

\* pd.to_numeric(df[col], errors="coerce").fillna(0) < 0, summed
fillna0(c) == IF c.k = "nan" THEN Cell("int", 0) ELSE c

NegCount(d, c) ==
    Cardinality({i \in 1..Len(d.rows) : fillna0(to_numeric(d.rows[i][c])).v < 0})

\* ----------------------------------------------------------------- server
\* The remote API is outside the repository; these are the answers the model
\* lets it give.
LevelNames == {"Country", "Province"}
LocNames == {"Indonesia", "USA"}

\* A body that is JSON but not the documented object (an error page).
ErrorBody == [error |-> "error"]

StaticMeta ==
    [min_date |-> 1, max_date |-> 2,
     levels |-> <<"Country", "Province">>,
     locations_by_level |-> [Country |-> <<"USA", "Indonesia">>, Province |-> <<>>]]

\* Metadata objects: levels lists and per-level location lists of bounded
\* length; the levels key may be absent, and so may the date keys.
Metas ==
    LET lists == SeqsUpTo(LocNames, MaxLocs)
        maps == UNION {[D -> lists] : D \in SUBSET LevelNames}
        dated(m) == [min_date |-> 1, max_date |-> 2, locations_by_level |-> m]
    IN  {[min_date |-> 1, max_date |-> 2, levels |-> ls, locations_by_level |-> m] :
            ls \in SeqsUpTo(LevelNames, MaxLevels), m \in maps}
        \cup {dated(m) : m \in maps}
        \cup {[levels |-> <<"Country">>, locations_by_level |-> [Country |-> <<"Indonesia">>]]}

ServerSummary(loc) ==
    [kpi |-> [total_cases |-> IF loc = "Indonesia" THEN 7 ELSE 0, total_deaths |-> 0]]

NumericProfiles ==
    {[new_cases |-> Cell("int", 1), new_deaths |-> Cell("int", 0),
      total_cases |-> Cell("int", 1), total_deaths |-> Cell("int", 1)],
     [new_cases |-> Cell("int", -1), new_deaths |-> Cell("int", 1),
      total_cases |-> Garbage, total_deaths |-> Cell("int", -2)],
     [new_cases |-> Garbage, new_deaths |-> Cell("int", -1),
      total_cases |-> Cell("int", -1), total_deaths |-> Cell("null", 0)]}

RawDates == {Cell("iso", 1), Cell("iso", 2), Garbage}

RawRow(d, p) ==
    [c \in AllColumns |->
        IF c = "date" THEN d ELSE IF c = "location" THEN Cell("str", 1) ELSE p[c]]

RowKinds == {RawRow(d, p) : d \in RawDates, p \in NumericProfiles}

\* /cases bodies: up to MaxRows rows over any set of columns, or a body with
\* no data key.
Payloads ==
    {[data |-> [i \in 1..Len(rs) |-> [c \in C |-> rs[i][c]]]] :
        rs \in SeqsUpTo(RowKinds, MaxRows), C \in SUBSET AllColumns}
    \cup {ErrorBody}

\* The API answers a request the same way every time it is asked.
\* The data set of the session model: nothing for USA, two rows for Indonesia
\* (newest first, one with a malformed count).
StaticCases ==
    [l \in LocNames |->
        IF l = "USA" THEN [data |-> <<>>]
        ELSE [data |-> <<RawRow(Cell("iso", 2), CHOOSE p \in NumericProfiles : p.new_cases.k = "str"),
                         RawRow(Cell("iso", 1), CHOOSE p \in NumericProfiles : p.new_deaths.v = 0)>>]]

\* datetime.now().date(): one day past the limit for day 1, at the limit for day 2
today == GapLimit + 2

\* ---------------------------------------------------------- st.cache_data
\* A store is a set of [key, val]; the key is the tuple of the call's
\* arguments.
\* Variant: a store that is never consulted (the decorator left out).
MemoNever(store, key) == FALSE

MemoHit(store, key) == \E e \in store : e.key = key
MemoGet(store, key) == (CHOOSE e \in store : e.key = key).val
MemoPut(store, key, val) == store \cup {[key |-> key, val |-> val]}

MetadataKey(api_base, timeout) == [api_base |-> api_base, timeout |-> timeout]

SummaryKey(api_base, lv, loc, s, e, timeout) ==
    [api_base |-> api_base, level |-> lv, location |-> loc, start_date |-> s,
     end_date |-> e, timeout |-> timeout]

CasesKey(api_base, lv, loc, s, e, timeout, limit) ==
    [api_base |-> api_base, level |-> lv, location |-> loc, start_date |-> s,
     end_date |-> e, timeout |-> timeout, limit |-> limit]

ApiKey(url, params, timeout) == [url |-> url, params |-> params, timeout |-> timeout]

Url(api_base, endpoint) == <<api_base, endpoint>>

NoParams == [none |-> TRUE]

SummaryParams(lv, loc, s, e) ==
    [level |-> lv, location |-> loc, start |-> strftime(s), end |-> strftime(e)]

CasesParams(lv, loc, s, e, limit) ==
    [level |-> lv, location |-> loc, start |-> strftime(s), end |-> strftime(e), limit |-> limit]

EmptyMemo ==
    [fetch_metadata |-> {}, fetch_summary |-> {}, fetch_cases |-> {},
     api_metadata |-> {}, api_summary |-> {}, api_cases |-> {}]

\* -------------------------------------------------------------- requests
ErrorKinds == {"Network", "Timeout", "HttpStatus", "Decode"}
Outcomes == {"ok"} \cup ErrorKinds

\* Variant: api_get without r.raise_for_status().
RaisesWithoutStatusCheck(outcome) == outcome \notin {"ok", "HttpStatus"}

\* api_get raises: requests.get on a network error or timeout,
\* raise_for_status on a non-2xx answer, r.json() on an undecodable body.
Raises(outcome) == outcome # "ok"

\* What api_get returns when it does not raise.
Body(outcome, answer) == IF outcome = "ok" THEN answer ELSE ErrorBody

Request(endpoint, outcome) == [endpoint |-> endpoint, outcome |-> outcome]

\* Variant: a handler for connection problems only.
CaughtConnectionOnly(outcome) == outcome \in {"Network", "Timeout"}

\* except Exception as e
Caught(outcome) == outcome \in ErrorKinds


VARIABLES
    run,          \* number of the current script run
    pc,           \* position of the script: the next block to execute, or how the run ended
    srvMeta,      \* what GET /metadata answers
    srvCases,     \* what GET /cases answers, per requested location
    TIMEOUT,      \* the timeout slider
    memo,         \* st.cache_data stores, one per decorated function (api_get split by endpoint)
    netLog,       \* requests.get calls of this run, in order
    rendered,     \* elements written to the page in this run, in order
    meta,         \* metadata of this run
    level, location, default_loc,
    start_date, end_date,
    summary,      \* summary JSON of this run
    df,           \* the case-record DataFrame of this run
    csv,          \* the rows handed to the download button
    status, issues,
    col_i         \* index of the negative-check loop

vars == <<run, pc, srvMeta, srvCases, TIMEOUT, memo, netLog, rendered, meta,
          level, location, default_loc, start_date, end_date, summary, df, csv,
          status, issues, col_i>>

\* ------------------------------------------------------------------ script
\* What the page shows before the metadata is loaded: title, caption and the
\* sidebar's Config controls and Filters header.
PageHead == <<"title", "config">>

NoLevel == "None"
Unset == [unset |-> TRUE]
NoCsv == [header |-> <<>>, rows |-> <<>>]

env == <<srvMeta, srvCases>>
filters == <<level, location, default_loc, start_date, end_date>>
quality == <<status, issues, col_i>>

\* The values the script's names hold before the script assigns them.
FreshRun ==
    /\ netLog = <<>>
    /\ rendered = PageHead
    /\ meta = Unset
    /\ level = NoLevel /\ location = NoLevel /\ default_loc = NoLevel
    /\ start_date = 0 /\ end_date = 0
    /\ summary = Unset
    /\ df = EmptyFrame
    /\ csv = NoCsv
    /\ status = "UNSET" /\ issues = <<>> /\ col_i = 0

\* A new session: nothing cached, the slider at its default.
Init ==
    /\ run = 1
    /\ pc = "load_metadata"
    /\ srvMeta = StaticMeta
    /\ srvCases = StaticCases
    /\ TIMEOUT = DefaultTimeout
    /\ memo = EmptyMemo
    /\ FreshRun

\* st.stop()
Stop(shown) ==
    /\ pc' = "stopped"
    /\ rendered' = rendered \o shown

\* An exception nobody catches: the framework shows it and ends the run.
Crash(shown) ==
    /\ pc' = "crashed"
    /\ rendered' = rendered \o shown \o <<"exception">>

Ended == pc \in {"done", "stopped", "crashed"}

\* A widget interaction re-runs the script; the timeout slider may have moved.
Rerun ==
    /\ Ended
    /\ run < MaxPasses
    /\ run' = run + 1
    /\ pc' = "load_metadata"
    /\ TIMEOUT' \in Timeouts
    /\ netLog' = <<>>
    /\ rendered' = PageHead
    /\ meta' = Unset
    /\ level' = NoLevel /\ location' = NoLevel /\ default_loc' = NoLevel
    /\ start_date' = 0 /\ end_date' = 0
    /\ summary' = Unset
    /\ df' = EmptyFrame
    /\ csv' = NoCsv
    /\ status' = "UNSET" /\ issues' = <<>> /\ col_i' = 0
    /\ UNCHANGED <<env, memo>>

\* meta.get("levels", ["Country"])
MetaLevels(m) == IF "levels" \in DOMAIN m THEN m.levels ELSE <<"Country">>

\* meta.get("locations_by_level", {})
MetaLocations(m) == IF "locations_by_level" \in DOMAIN m THEN m.locations_by_level ELSE <<>>

\* locations_by_level.get(level, [])
LocsOf(lbl, lv) == IF lv \in DOMAIN lbl THEN lbl[lv] ELSE <<>>

\* Variant: always the first entry.
DefaultLocFirst(locs) == locs[1]

\* "Indonesia" if "Indonesia" in locs else locs[0]
DefaultLoc(locs) == IF "Indonesia" \in Range(locs) THEN "Indonesia" ELSE locs[1]

\* st.selectbox(options, index): None without options; the option at index
\* on the first run, afterwards whatever option the user has picked.
Selectbox(options, index, r) ==
    IF options = <<>> THEN {NoLevel}
    ELSE IF r = 1 THEN {options[index]} ELSE Range(options)

\* st.date_input(value=(min, max)): the tuple the widget returns; a range
\* whose end is not picked yet comes back as a 1-tuple.
\* Unpacking a 1-tuple into start_date, end_date raises ValueError, so the
\* isinstance test after the unpacking never sees a tuple.
DateInput(lo, hi, r) ==
    IF r = 1 THEN {<<lo, hi>>}
    ELSE {<<s, e>> : s \in lo..hi, e \in lo..hi} \cup {<<s>> : s \in lo..hi}

\* Variant: the comparison the wrong way round.
RangeInvalidReversed(s, e) == s < e

\* if start_date > end_date
RangeInvalid(s, e) == s > e

\* Lines 92-95 after a metadata object is at hand.
MetadataLoaded(m) ==
    /\ meta' = m
    /\ IF "min_date" \in DOMAIN m /\ "max_date" \in DOMAIN m
       THEN pc' = "filters" /\ rendered' = rendered
       ELSE Crash(<<>>)

\* fetch_metadata(API_BASE, TIMEOUT) in its try/except, then min/max/levels.
LoadMetadata ==
    /\ pc = "load_metadata"
    /\ LET key == MetadataKey(API_BASE, TIMEOUT)
           akey == ApiKey(Url(API_BASE, "metadata"), NoParams, TIMEOUT)
       IN  IF MemoHit(memo.fetch_metadata, key)
           THEN /\ MetadataLoaded(MemoGet(memo.fetch_metadata, key))
                /\ UNCHANGED <<memo, netLog>>
           ELSE IF MemoHit(memo.api_metadata, akey)
           THEN /\ MetadataLoaded(MemoGet(memo.api_metadata, akey))
                /\ memo' = [memo EXCEPT !.fetch_metadata =
                                MemoPut(@, key, MemoGet(memo.api_metadata, akey))]
                /\ UNCHANGED netLog
           ELSE \E outcome \in Outcomes :
                /\ netLog' = Append(netLog, Request("metadata", outcome))
                /\ IF Raises(outcome)
                   THEN /\ IF Caught(outcome)
                           THEN Stop(<<"api_error", "error_text">>)
                           ELSE Crash(<<>>)
                        /\ UNCHANGED <<memo, meta>>
                   ELSE LET body == Body(outcome, srvMeta)
                        IN  /\ MetadataLoaded(body)
                            /\ memo' = [memo EXCEPT
                                          !.api_metadata = MemoPut(@, akey, body),
                                          !.fetch_metadata = MemoPut(@, key, body)]
    /\ UNCHANGED <<run, env, TIMEOUT, filters, summary, df, csv, quality>>

\* The sidebar's filter block: level, location, date range.
Filters ==
    /\ pc = "filters"
    /\ \E lv \in Selectbox(MetaLevels(meta), 1, run) :
       LET locs == LocsOf(MetaLocations(meta), lv)
       IN  /\ level' = lv
           /\ IF locs = <<>>
              THEN /\ Stop(<<"level_select", "no_location_warning">>)
                   /\ UNCHANGED <<location, default_loc, start_date, end_date>>
              ELSE /\ default_loc' = DefaultLoc(locs)
                   /\ \E loc \in Selectbox(locs, IndexOf(locs, DefaultLoc(locs)), run) :
                      \E sel \in DateInput(meta.min_date, meta.max_date, run) :
                         /\ location' = loc
                         /\ IF Len(sel) # 2
                            THEN /\ Crash(<<"level_select", "location_select", "date_input">>)
                                 /\ UNCHANGED <<start_date, end_date>>
                            ELSE /\ start_date' = sel[1]
                                 /\ end_date' = sel[2]
                                 /\ IF RangeInvalid(sel[1], sel[2])
                                    THEN Stop(<<"level_select", "location_select",
                                                "date_input", "range_error">>)
                                    ELSE /\ pc' = "fetch_summary"
                                         /\ rendered' = rendered \o
                                               <<"level_select", "location_select", "date_input">>
    /\ UNCHANGED <<run, env, TIMEOUT, memo, netLog, meta, summary, df, csv, quality>>

\* summary = fetch_summary(API_BASE, level, location, start_date, end_date, TIMEOUT)
FetchSummary ==
    /\ pc = "fetch_summary"
    /\ LET key == SummaryKey(API_BASE, level, location, start_date, end_date, TIMEOUT)
           akey == ApiKey(Url(API_BASE, "summary"),
                          SummaryParams(level, location, start_date, end_date), TIMEOUT)
       IN  IF MemoHit(memo.fetch_summary, key)
           THEN /\ summary' = MemoGet(memo.fetch_summary, key)
                /\ pc' = "fetch_cases"
                /\ UNCHANGED <<memo, netLog, rendered>>
           ELSE IF MemoHit(memo.api_summary, akey)
           THEN /\ summary' = MemoGet(memo.api_summary, akey)
                /\ memo' = [memo EXCEPT !.fetch_summary =
                                MemoPut(@, key, MemoGet(memo.api_summary, akey))]
                /\ pc' = "fetch_cases"
                /\ UNCHANGED <<netLog, rendered>>
           ELSE \E outcome \in Outcomes :
                /\ netLog' = Append(netLog, Request("summary", outcome))
                /\ IF Raises(outcome)
                   THEN /\ Crash(<<>>)
                        /\ UNCHANGED <<memo, summary>>
                   ELSE LET body == Body(outcome, ServerSummary(location))
                        IN  /\ summary' = body
                            /\ memo' = [memo EXCEPT
                                          !.api_summary = MemoPut(@, akey, body),
                                          !.fetch_summary = MemoPut(@, key, body)]
                            /\ pc' = "fetch_cases"
                            /\ UNCHANGED rendered
    /\ UNCHANGED <<run, env, TIMEOUT, meta, filters, df, csv, quality>>

\* df = fetch_cases(API_BASE, level, location, start_date, end_date, TIMEOUT, limit=8000)
FetchCases ==
    /\ pc = "fetch_cases"
    /\ LET key == CasesKey(API_BASE, level, location, start_date, end_date, TIMEOUT, CasesLimit)
           akey == ApiKey(Url(API_BASE, "cases"),
                          CasesParams(level, location, start_date, end_date, CasesLimit), TIMEOUT)
       IN  IF MemoHit(memo.fetch_cases, key)
           THEN /\ df' = MemoGet(memo.fetch_cases, key)
                /\ pc' = "compose"
                /\ UNCHANGED <<memo, netLog, rendered>>
           ELSE IF MemoHit(memo.api_cases, akey)
           THEN /\ df' = normalize(MemoGet(memo.api_cases, akey))
                /\ memo' = [memo EXCEPT !.fetch_cases =
                                MemoPut(@, key, normalize(MemoGet(memo.api_cases, akey)))]
                /\ pc' = "compose"
                /\ UNCHANGED <<netLog, rendered>>
           ELSE \E outcome \in Outcomes :
                /\ netLog' = Append(netLog, Request("cases", outcome))
                /\ IF Raises(outcome)
                   THEN /\ Crash(<<>>)
                        /\ UNCHANGED <<memo, df>>
                   ELSE LET body == Body(outcome, srvCases[location])
                        IN  /\ df' = normalize(body)
                            /\ memo' = [memo EXCEPT
                                          !.api_cases = MemoPut(@, akey, body),
                                          !.fetch_cases = MemoPut(@, key, normalize(body))]
                            /\ pc' = "compose"
                            /\ UNCHANGED rendered
    /\ UNCHANGED <<run, env, TIMEOUT, meta, filters, summary, csv, quality>>


\* kpi = summary.get("kpi", {}), the empty-frame notice, the KPI row and the tabs.
Compose ==
    /\ pc = "compose"
    /\ IF DfEmpty(df)
       THEN Stop(<<"no_data">>)
       ELSE /\ pc' = "overview"
            /\ rendered' = rendered \o <<"kpi", "tabs">>
    /\ UNCHANGED <<run, env, TIMEOUT, memo, netLog, meta, filters, summary, df, csv, quality>>

\* for col in [...]: if col in df.columns: df[col] = pd.to_numeric(df[col], errors="coerce")
OverviewNumericCols == <<"new_cases", "new_deaths", "total_cases", "total_deaths">>

RECURSIVE CoerceColumns(_, _)
CoerceColumns(d, columns) ==
    IF columns = <<>> THEN d
    ELSE CoerceColumns(IF HasColumn(d, Head(columns)) THEN MapColumn(d, Head(columns), to_numeric) ELSE d,
                       Tail(columns))

\* Variant: the frame is also re-ordered in place (df = df.sort_values("date")).
CoerceNumericSorted(d) ==
    LET c == CoerceColumns(d, OverviewNumericCols)
    IN  IF HasColumn(c, "date") THEN sort_values(c) ELSE c

CoerceNumeric(d) == CoerceColumns(d, OverviewNumericCols)

\* What the Overview tab has drawn when df.sort_values("date") raises KeyError.
OverviewBeforeKeyError(d) ==
    IF HasColumn(d, "new_cases") THEN <<>>
    ELSE IF HasColumn(d, "new_deaths") THEN <<"new_cases_info">>
    ELSE <<"new_cases_info", "snapshot">>

OverviewShown(d) ==
    (IF HasColumn(d, "new_cases") THEN <<"chart_new_cases">> ELSE <<"new_cases_info">>)
    \o (IF HasColumn(d, "new_deaths") THEN <<"chart_new_deaths">> ELSE <<>>)
    \o <<"snapshot", "preview">>

\* with tab_overview
Overview ==
    /\ pc = "overview"
    /\ df' = CoerceNumeric(df)
    /\ IF HasColumn(df, "date")
       THEN /\ pc' = "report"
            /\ rendered' = rendered \o OverviewShown(df)
       ELSE Crash(OverviewBeforeKeyError(df))
    /\ UNCHANGED <<run, env, TIMEOUT, memo, netLog, meta, filters, summary, csv, quality>>

\* export_df = df.sort_values("date").copy(); export_df.to_csv(index=False)
to_csv(d) == [header |-> d.cols, rows |-> sort_values(d).rows]

\* with tab_report
Report ==
    /\ pc = "report"
    /\ IF HasColumn(df, "date")
       THEN /\ csv' = to_csv(df)
            /\ pc' = "gov_completeness"
            /\ rendered' = rendered \o <<"report", "csv_download">>
       ELSE /\ Crash(<<"report">>)
            /\ UNCHANGED csv
    /\ UNCHANGED <<run, env, TIMEOUT, memo, netLog, meta, filters, summary, df, quality>>

\* One entry of issues.
Finding(check, columns, n) == [check |-> check, columns |-> columns, n |-> n]

\* Variant: the assignment without its conditional.
EscalateAlways(s) == "WARNING"

\* status = "WARNING" if status == "OK" else status
Escalate(s) == IF s = "OK" THEN "WARNING" ELSE s

required == <<"date", "location">>

\* missing = [c for c in required if c not in df.columns]
Missing(d) ==
    LET Absent(c) == ~HasColumn(d, c)
    IN  SelectSeq(required, Absent)

\* Variant: completeness escalates like the other checks.
CompletenessStatusWarning(missing) == IF missing # <<>> THEN "WARNING" ELSE "OK"

\* The status the completeness check leaves.
CompletenessStatus(missing) == IF missing # <<>> THEN "CRITICAL" ELSE "OK"

\* issues = [], status = "OK", then the completeness check
GovCompleteness ==
    /\ pc = "gov_completeness"
    /\ status' = CompletenessStatus(Missing(df))
    /\ issues' = IF Missing(df) # <<>> THEN <<Finding("Missing columns", Missing(df), 0)>> ELSE <<>>
    /\ pc' = "gov_date"
    /\ rendered' = rendered \o <<"governance">>
    /\ UNCHANGED <<run, env, TIMEOUT, memo, netLog, meta, filters, summary, df, csv, col_i>>

\* Date validity
GovDateValidity ==
    /\ pc = "gov_date"
    /\ IF HasColumn(df, "date") /\ NullDates(df) > 0
       THEN /\ status' = Escalate(status)
            /\ issues' = Append(issues, Finding("Invalid date rows", <<"date">>, NullDates(df)))
       ELSE UNCHANGED <<status, issues>>
    /\ pc' = "gov_negative"
    /\ col_i' = 1
    /\ UNCHANGED <<run, env, TIMEOUT, memo, netLog, rendered, meta, filters, summary, df, csv>>

NegativeCheckCols == <<"new_cases", "new_deaths", "total_cases", "total_deaths">>

\* One iteration of the negative-check loop.
GovNegative ==
    /\ pc = "gov_negative"
    /\ LET col == NegativeCheckCols[col_i]
       IN  IF HasColumn(df, col) /\ NegCount(df, col) > 0
           THEN /\ status' = Escalate(status)
                /\ issues' = Append(issues, Finding("Negative values", <<col>>, NegCount(df, col)))
           ELSE UNCHANGED <<status, issues>>
    /\ IF col_i < Len(NegativeCheckCols)
       THEN col_i' = col_i + 1 /\ pc' = pc
       ELSE col_i' = 0 /\ pc' = "gov_timeliness"
    /\ UNCHANGED <<run, env, TIMEOUT, memo, netLog, rendered, meta, filters, summary, df, csv>>

\* gap = (datetime.now().date() - latest).days
Gap(d) == today - DateMax(d).v

\* Timeliness
GovTimeliness ==
    /\ pc = "gov_timeliness"
    /\ IF HasColumn(df, "date") /\ DateMax(df).k = "ts" /\ Gap(df) > GapLimit
       THEN /\ status' = Escalate(status)
            /\ issues' = Append(issues, Finding("Data timeliness", <<"date">>, Gap(df)))
       ELSE UNCHANGED <<status, issues>>
    /\ pc' = "gov_badge"
    /\ UNCHANGED <<run, env, TIMEOUT, memo, netLog, rendered, meta, filters, summary, df, csv, col_i>>

Badge(s) == IF s = "OK" THEN "badge_ok" ELSE IF s = "WARNING" THEN "badge_warning" ELSE "badge_critical"

\* Status badge, findings, governance notes, closing caption.
GovBadge ==
    /\ pc = "gov_badge"
    /\ rendered' = rendered \o <<Badge(status)>>
                     \o (IF issues # <<>> THEN <<"findings">> ELSE <<"no_issues">>)
                     \o <<"governance_notes", "tip">>
    /\ pc' = "done"
    /\ UNCHANGED <<run, env, TIMEOUT, memo, netLog, meta, filters, summary, df, csv, quality>>

\* ---------------------------------------------------------- specifications
\* One script run, from the first line to its end.
NextPass ==
    \/ LoadMetadata
    \/ Filters
    \/ FetchSummary
    \/ FetchCases
    \/ Compose
    \/ Overview
    \/ Report
    \/ GovCompleteness
    \/ GovDateValidity
    \/ GovNegative
    \/ GovTimeliness
    \/ GovBadge

Next == Rerun \/ NextPass

\* A session against the fixed data set.
Spec == Init /\ [][Next]_vars

\* The first run of a session, against any /cases body.
InitView ==
    /\ run = 1
    /\ pc = "load_metadata"
    /\ srvMeta = StaticMeta
    /\ srvCases \in {[l \in LocNames |-> p] : p \in Payloads}
    /\ TIMEOUT = DefaultTimeout
    /\ memo = EmptyMemo
    /\ FreshRun

SpecView == InitView /\ [][NextPass]_vars

\* The filter block of a later run (nothing cached yet: the runs before it
\* failed on the metadata), against any metadata object.
InitFilters ==
    /\ run = 2
    /\ pc = "load_metadata"
    /\ srvMeta \in Metas
    /\ srvCases = StaticCases
    /\ TIMEOUT \in Timeouts
    /\ memo = EmptyMemo
    /\ FreshRun

NextFilters == LoadMetadata \/ Filters \/ FetchSummary \/ FetchCases

SpecFilters == InitFilters /\ [][NextFilters]_vars

\* ------------------------------------------------------------- properties
Shown(tag) == tag \in Range(rendered)

Requested(endpoint) == \E i \in 1..Len(netLog) : netLog[i].endpoint = endpoint

Failed(endpoint) ==
    \E i \in 1..Len(netLog) : netLog[i].endpoint = endpoint /\ netLog[i].outcome # "ok"

FilterControls == {"level_select", "location_select", "date_input"}

\* Everything the page shows below the filters: KPIs, charts, report, quality.
ContentTags ==
    {"kpi", "tabs", "chart_new_cases", "chart_new_deaths", "new_cases_info", "snapshot",
     "preview", "report", "csv_download", "governance", "badge_ok", "badge_warning",
     "badge_critical", "findings", "no_issues", "governance_notes", "tip"}

NoContent == Range(rendered) \cap ContentTags = {}

Sev(s) == CASE s = "OK" -> 0 [] s = "WARNING" -> 1 [] s = "CRITICAL" -> 2 [] OTHER -> 0

GovSteps == {"gov_date", "gov_negative", "gov_timeliness", "gov_badge"}

\* The frame fetch_cases returned for this run's filters (the cached copy).
ThisCasesKey ==
    CasesKey(API_BASE, level, location, start_date, end_date, TIMEOUT, CasesLimit)

ThisSummaryKey == SummaryKey(API_BASE, level, location, start_date, end_date, TIMEOUT)

CasesFetched ==
    /\ pc \notin {"load_metadata", "filters", "fetch_summary", "fetch_cases"}
    /\ \E e \in memo.fetch_cases : e.key = ThisCasesKey

Fetched == (CHOOSE e \in memo.fetch_cases : e.key = ThisCasesKey).val

\* C1: during the quality checks the severity never decreases: every step
\* taken after the completeness check leaves a status at least as severe as
\* the one it found (OK < WARNING < CRITICAL).
C1_SeverityMonotonic ==
    [][(pc \in GovSteps) =>
          (status \in {"OK", "WARNING", "CRITICAL"} /\ Sev(status') >= Sev(status))]_vars

\* C1 witness: a frame without the location column but with findings of later
\* checks: the status is still CRITICAL when the badge is drawn.
C1_Witness ==
    /\ pc = "gov_badge"
    /\ status = "CRITICAL"
    /\ Len(issues) >= 3

\* C2: in a run whose selected start date is after the end date the script
\* has stopped at the range error: no /summary or /cases request was made, no
\* summary or frame was obtained and nothing below the filters is shown.
C2_InvalidRangeBlocksFetch ==
    (pc \notin {"load_metadata", "filters"} /\ start_date > end_date) =>
        /\ pc = "stopped"
        /\ Shown("range_error")
        /\ ~Requested("summary") /\ ~Requested("cases")
        /\ summary = Unset /\ df = EmptyFrame
        /\ NoContent

\* C2 witness: a run stopped at an inverted range.
C2_Witness ==
    /\ pc = "stopped"
    /\ start_date > end_date
    /\ Shown("range_error")

\* C3: in a run whose cases payload has an empty row list, once the script is
\* past the emptiness test it has stopped with exactly one no-data notice and
\* shows no KPI, chart, report or quality element.
C3_EmptyShortCircuits ==
    (CasesFetched /\ Len(Fetched.rows) = 0 /\ pc # "compose") =>
        /\ pc = "stopped"
        /\ CountIn(rendered, {"no_data"}) = 1
        /\ NoContent
        /\ csv = NoCsv /\ status = "UNSET"

\* C3 witness: a later run that got the empty frame and stopped at the notice.
C3_Witness ==
    /\ CasesFetched
    /\ Len(Fetched.rows) = 0
    /\ pc = "stopped"
    /\ Shown("no_data")
    /\ run > 1

\* C4: once the filter block has drawn the level selector, the level is one of
\* the metadata's levels (or None without levels); if the level's location
\* list is empty or absent the run has stopped with no location and no
\* /summary or /cases request, otherwise the default location is "Indonesia"
\* if the list has it and the list's first entry if not, hence a member.
C4_DefaultLocation ==
    Shown("level_select") =>
        LET locs == LocsOf(MetaLocations(meta), level)
        IN  /\ level \in Range(MetaLevels(meta)) \cup {NoLevel}
            /\ (level = NoLevel) = (MetaLevels(meta) = <<>>)
            /\ IF locs = <<>>
               THEN /\ pc = "stopped"
                    /\ Shown("no_location_warning")
                    /\ default_loc = NoLevel /\ location = NoLevel
                    /\ ~Requested("summary") /\ ~Requested("cases")
                    /\ summary = Unset /\ df = EmptyFrame
               ELSE /\ default_loc \in Range(locs)
                    /\ ("Indonesia" \in Range(locs)) => default_loc = "Indonesia"
                    /\ ("Indonesia" \notin Range(locs)) => default_loc = locs[1]
                    /\ location \in Range(locs)

\* C4 witness: "Indonesia" is in the level's list but not its first entry, and
\* it is the default.
C4_Witness ==
    /\ Shown("level_select")
    /\ LocsOf(MetaLocations(meta), level) # <<>>
    /\ LocsOf(MetaLocations(meta), level)[1] # "Indonesia"
    /\ default_loc = "Indonesia"

\* C4 witness of the halting case is part of the formula's first branch.
C4_HaltReached ==
    /\ Shown("no_location_warning")
    /\ pc = "stopped"


\* Entries of a store made for the same request as key, whatever the timeout.
SameRequest(k1, k2) == [k1 EXCEPT !.timeout = 0] = [k2 EXCEPT !.timeout = 0]

ThisMetadataKey == MetadataKey(API_BASE, TIMEOUT)

AppendOnly ==
    /\ memo.fetch_metadata \subseteq memo'.fetch_metadata
    /\ memo.fetch_summary \subseteq memo'.fetch_summary
    /\ memo.fetch_cases \subseteq memo'.fetch_cases
    /\ memo.api_metadata \subseteq memo'.api_metadata
    /\ memo.api_summary \subseteq memo'.api_summary
    /\ memo.api_cases \subseteq memo'.api_cases

\* C5 as stated: a request whose endpoint and parameters were answered before
\* in the session, under any timeout setting, makes no network call; stores
\* only grow.
C5_MemoByEndpointAndParams ==
    [][/\ (pc = "load_metadata" /\ \E e \in memo.fetch_metadata : SameRequest(e.key, ThisMetadataKey))
            => netLog' = netLog
       /\ (pc = "fetch_summary" /\ \E e \in memo.fetch_summary : SameRequest(e.key, ThisSummaryKey))
            => netLog' = netLog
       /\ (pc = "fetch_cases" /\ \E e \in memo.fetch_cases : SameRequest(e.key, ThisCasesKey))
            => netLog' = netLog
       /\ AppendOnly]_vars

\* C5 amended: the key is the endpoint, the parameters and the timeout.  A
\* request whose endpoint, parameters and timeout were answered before makes
\* no network call and yields the stored value; any other request makes
\* exactly one network call; stores only grow.
C5_MemoByArguments ==
    [][/\ (pc = "load_metadata") =>
            IF \E e \in memo.fetch_metadata : e.key = ThisMetadataKey
            THEN /\ netLog' = netLog
                 /\ \E e \in memo.fetch_metadata : e.key = ThisMetadataKey /\ meta' = e.val
            ELSE Len(netLog') = Len(netLog) + 1
       /\ (pc = "fetch_summary") =>
            IF \E e \in memo.fetch_summary : e.key = ThisSummaryKey
            THEN /\ netLog' = netLog
                 /\ \E e \in memo.fetch_summary : e.key = ThisSummaryKey /\ summary' = e.val
            ELSE Len(netLog') = Len(netLog) + 1
       /\ (pc = "fetch_cases") =>
            IF \E e \in memo.fetch_cases : e.key = ThisCasesKey
            THEN /\ netLog' = netLog
                 /\ \E e \in memo.fetch_cases : e.key = ThisCasesKey /\ df' = e.val
            ELSE Len(netLog') = Len(netLog) + 1
       /\ AppendOnly]_vars

\* C5 witness: a later run that got metadata, summary and a non-empty frame
\* without any network call, after runs with other filters or timeouts.
C5_Witness ==
    /\ run >= 3
    /\ pc = "compose"
    /\ netLog = <<>>
    /\ ~DfEmpty(df)
    /\ Cardinality(memo.fetch_cases) >= 2

\* C6 as stated: a run whose non-empty frame lacks date or location ends with
\* the quality evaluation done, status CRITICAL and a first finding that names
\* exactly the missing required columns.
C6_MissingColumnsReported ==
    (Ended /\ ~DfEmpty(df) /\ (~HasColumn(df, "date") \/ ~HasColumn(df, "location"))) =>
        /\ pc = "done"
        /\ status = "CRITICAL"
        /\ issues # <<>>
        /\ issues[1].check = "Missing columns"
        /\ Range(issues[1].columns) = {"date", "location"} \ Range(df.cols)

\* C7: a failed metadata request leaves the run stopped with the page head
\* followed by the API-unreachable message and the error text only; it is the
\* run's only request, and no summary or frame was obtained.
C7_MetadataFailureHalts ==
    Failed("metadata") =>
        /\ pc = "stopped"
        /\ rendered = PageHead \o <<"api_error", "error_text">>
        /\ Range(rendered) \cap FilterControls = {}
        /\ NoContent
        /\ Len(netLog) = 1
        /\ meta = Unset /\ summary = Unset /\ df = EmptyFrame

\* C7 witness: a later run stopped by a non-2xx answer to /metadata.
C7_Witness ==
    /\ run > 1
    /\ pc = "stopped"
    /\ Shown("api_error")
    /\ netLog = <<Request("metadata", "HttpStatus")>>

\* Positions of the script between the sections and at the end of the run.
SectionPoints ==
    {"compose", "overview", "report", "gov_completeness", "gov_date", "gov_negative",
     "gov_timeliness", "gov_badge", "done"}

\* C8 as stated: after the cases fetch and after each section the frame is the
\* frame as fetched, and the rows exported are the fetched rows in date order.
C8_FrameAsFetched ==
    (CasesFetched /\ pc \in SectionPoints) =>
        /\ df = Fetched
        /\ csv # NoCsv => (csv.header = Fetched.cols /\ csv.rows = SortRows(Fetched.rows))

\* C8 amended: the frame keeps the fetched column list, row count and stored
\* row order, and every cell outside the four numeric columns; the Overview
\* section replaces the cells of the numeric columns by their numeric
\* coercion, and Report and Governance leave the frame as Overview left it;
\* the exported rows are that frame's rows in date order.
C8_FrameCoercedInPlace ==
    CasesFetched =>
        /\ df.cols = Fetched.cols
        /\ Len(df.rows) = Len(Fetched.rows)
        /\ \A i \in 1..Len(df.rows) : \A c \in Range(df.cols) :
              df.rows[i][c] =
                 IF c \in Range(OverviewNumericCols) /\ pc \notin {"compose", "overview", "stopped"}
                 THEN to_numeric(Fetched.rows[i][c])
                 ELSE Fetched.rows[i][c]
        /\ csv # NoCsv => (csv.header = df.cols /\ csv.rows = SortRows(df.rows))

\* C8 witness: a finished run whose frame differs from the fetched one and
\* whose stored order is not the date order of the export.
C8_Witness ==
    /\ CasesFetched
    /\ pc = "done"
    /\ df # Fetched
    /\ csv.rows # df.rows

\* C9: a failed /summary or /cases request is the last request of its run and
\* leaves the run ended by the exception, shown last, with nothing below the
\* filters; after a failed /summary there is no /cases request and no frame;
\* no endpoint is requested twice in a run.
C9_FetchFailureHalts ==
    /\ (Failed("summary") \/ Failed("cases")) =>
          /\ pc = "crashed"
          /\ netLog[Len(netLog)].outcome # "ok"
          /\ rendered[Len(rendered)] = "exception"
          /\ NoContent
          /\ csv = NoCsv /\ status = "UNSET"
    /\ Failed("summary") => (~Requested("cases") /\ summary = Unset /\ df = EmptyFrame)
    /\ \A i, j \in 1..Len(netLog) : netLog[i].endpoint = netLog[j].endpoint => i = j

\* C9 witness: the /cases request timed out after /summary was answered.
C9_Witness ==
    /\ pc = "crashed"
    /\ Len(netLog) >= 2
    /\ netLog[Len(netLog)] = Request("cases", "Timeout")
    /\ summary # Unset

\* C9 witness of the other case: /summary failed.
C9_SummaryFailed ==
    /\ pc = "crashed"
    /\ Failed("summary")

\* Position of a finding in the order of the checks.
Rank(f) ==
    CASE f.check = "Missing columns" -> 1
      [] f.check = "Invalid date rows" -> 2
      [] f.check = "Negative values" -> 2 + IndexOf(NegativeCheckCols, f.columns[1])
      [] f.check = "Data timeliness" -> 7

\* C10: when the quality checks are over, the status is OK exactly when there
\* are no findings, CRITICAL exactly when date or location is missing, and
\* WARNING otherwise; the findings are in check order; the page shows the
\* badge of the status and the no-issues line exactly when there are none.
C10_StatusAgreesWithFindings ==
    pc \in {"gov_badge", "done"} =>
        /\ status \in {"OK", "WARNING", "CRITICAL"}
        /\ (status = "OK") = (issues = <<>>)
        /\ (status = "CRITICAL") = (~HasColumn(df, "date") \/ ~HasColumn(df, "location"))
        /\ \A i, j \in 1..Len(issues) : i < j => Rank(issues[i]) < Rank(issues[j])
        /\ pc = "done" =>
              /\ Shown("no_issues") = (issues = <<>>)
              /\ Shown("findings") = (issues # <<>>)
              /\ Shown("badge_ok") = (status = "OK")
              /\ Shown("badge_warning") = (status = "WARNING")
              /\ Shown("badge_critical") = (status = "CRITICAL")

\* C10 witness: a finished run with status CRITICAL and several findings.
C10_Witness ==
    /\ pc = "done"
    /\ status = "CRITICAL"
    /\ Len(issues) >= 2
    /\ issues[Len(issues)].check = "Data timeliness"

\* C10 witness of the other cases: a clean frame and a WARNING frame.
C10_CleanReached == pc = "done" /\ status = "OK"

C10_WarningReached == pc = "done" /\ status = "WARNING" /\ Len(issues) >= 3

====
